---- MODULE Spec2Model ----
(***************************************************************************)
(* es-function-timers: the throttle, debounce and clocked governors, each  *)
(* modelled as a state machine over a host clock (Date.now) and a host     *)
(* timer service (setTimeout / clearTimeout / setInterval / clearInterval).*)
(*                                                                         *)
(* Time is discrete: one instant is one millisecond of Date.now().  The     *)
(* host keeps time for its timers on a clock of its own, which may be one  *)
(* millisecond ahead of Date.now(): a timer callback may run while         *)
(* Date.now() still reads one less than the time the timer is due.  It may *)
(* also run later: the clock may pass the due time of an outstanding timer *)
(* (the thread is busy), and calls may run before a callback that is due.  *)
(***************************************************************************)
EXTENDS Integers, Sequences, FiniteSets, TLC

\* ------------------------------------------------------------------ bounds

\* number of calls of the governed callable in one behaviour
MaxCalls == 3
\* last instant of the host clock
MaxTime == 5
\* largest threshold / delay / interval handed to a wrapper
MaxDuration == 2
\* number of calls of a clocked callable in one behaviour
MaxClockedCalls == 2
\* last instant of the host clock for a clocked governor
MaxClockTime == 3
\* last instant of the host clock for a clocked governor with a controller,
\* followed until the controller terminates it
MaxControllerTime == 6

\* ------------------------------------------------------- program constants

DEFAULT_THROTTLE_THRESHOLD == 200
DEFAULT_DEBOUNCE_DELAY == 100
DEFAULT_INTERVAL == 200
\* the tick count after which the controllers of controllerTest and
\* originalProblemTest terminate (`count > 5`)
CONTROLLER_LAST_COUNT == 5

\* ------------------------------------------------------------------ values

\* `undefined` / `null` of a numeric variable (timestamps, counters)
NoNumber == -1
\* `undefined` / `null` of a timer handle; host handles are positive integers
NoHandle == 0

\* argument values a caller passes; argsArray is a one-element sequence
ArgValues == {"a", "b"}
\* no arguments: an empty argumentsArray, and the arguments the host passes
\* to the callback of setInterval(trigger, interval)
NoArgs == << >>
\* the not yet assigned argsArr of a clocked governor (`let argsArr;`)
UnassignedArgs == "undefined"

\* the calls of a throttled / debounced callable: <<call-site `this`,
\* argument>>; sloppy mode, so a plain call sees the global object, never
\* undefined
GovernedInputs == {<<"global", "a">>, <<"obj1", "b">>}
\* `target` handed to a wrapper: absent, a falsy primitive, an object
TargetValues == {"undefined", "zero", "objT"}
\* the calls of a clocked callable: <<call-site `this`, argumentsArray>>;
\* strict mode, so a plain call sees `this` undefined; `.call()` passes no
\* argument
ClockedInputs == {<<"undefined", << >>>>, <<"undefined", <<"a">>>>, <<"obj1", <<"b">>>>}
\* `controller` handed to clocked: absent, or one of the two of the source
ControllerValues == {"none", "controllerTest", "originalProblemTest"}

\* the functions: the original callable and the two controllers of the source
Functions == {"f", "controllerTest", "originalProblemTest"}
\* the values a wrapper is applied to: a function, an object that is not
\* callable, a primitive number, undefined
SubjectValues == {"f", "obj0", "five", "undefined"}

\* isFunction(type): typeof type === 'function', with call and apply
isFunction(f) == f \in Functions

\* the `this` of a sloppy-mode function called on `v`: the global object for
\* undefined and null, the wrapper object of a primitive, an object itself
sloppyThis(v) ==
  IF v \in {"undefined", "null"} THEN "global"
  ELSE IF v = "five" THEN "Number(five)"
  ELSE v

\* the `this` of a strict-mode function called on `v`: `v` itself
strictThis(v) == v

mathMax(a, b) == IF a >= b THEN a ELSE b

\* JavaScript truthiness of a context value
Truthy(v) == v \notin {"undefined", "null", "zero"}
\* JavaScript truthiness of a number that may be undefined
TruthyNumber(n) == n # NoNumber /\ n # 0
\* JavaScript truthiness of a timer handle that may be null / undefined
TruthyHandle(h) == h # NoHandle

getSanitizedTarget(v) == IF v \in {"undefined", "null"} THEN "null" ELSE v

\* parseInt(number, 10) of an integer is that integer; everything that is not
\* a safe integer, and zero itself, comes out as 0
getSanitizedInteger(n) == IF n \in Int THEN n ELSE 0
getSanitizedPositiveInteger(n) == mathMax(getSanitizedInteger(n), 0)

\* `getSanitizedPositiveInteger(x) || DEFAULT`
sanitizedDuration(n, default) ==
  IF getSanitizedPositiveInteger(n) # 0 THEN getSanitizedPositiveInteger(n) ELSE default

\* ------------------------------------------------------------------- state

VARIABLES
  \* host
  now,               \* Date.now()
  timers,            \* the host's outstanding timers (scheduled, not fired, not cancelled)
  nextId,            \* the handle the host hands out next
  \* observation (history)
  callLog,           \* the calls of the governed callable, in order
  invocations,       \* the invocations of the original callable, in order
  controllerLog,     \* the snapshots handed to a clocked controller, in order
  \* the value a wrapper was applied to, the `this` the wrapper saw, and the
  \* value it returned
  subject, proceed, governed,
  \* wrapper parameters (closure constants after sanitisation)
  threshold, isSuppressTrailingCall, target,
  delay, isTriggerImmediately,
  interval, controller,
  \* throttle closure
  timeoutId, timeGap, timestampRecent, timestampCurrent, context,
  \* debounce closure (shares the names timeoutId and context)
  timeoutResetId,
  \* clocked closure
  thisArg, argsArr, clockCount, clockStart, timerId,
  \* observation: the operation of a clocked governor that ran last
  lastOp

hostVars == <<now, timers, nextId>>
logVars == <<callLog, invocations, controllerLog>>
paramVars == <<subject, proceed, governed, threshold, isSuppressTrailingCall, target, delay, isTriggerImmediately, interval, controller>>
throttleVars == <<timeGap, timestampRecent, timestampCurrent>>
sharedVars == <<timeoutId, context>>
debounceVars == <<timeoutResetId>>
clockedVars == <<thisArg, argsArr, clockCount, clockStart, timerId>>
vars == <<hostVars, logVars, paramVars, throttleVars, sharedVars, debounceVars, clockedVars, lastOp>>

\* ------------------------------------------------------------ host timers

\* a timer of the host: `period` is 0 for a timeout, the interval otherwise;
\* `call` is the index in callLog of the call that scheduled it (history)
Timer(id, fn, due, period, args, call) ==
  [id |-> id, fn |-> fn, due |-> due, period |-> period, args |-> args, call |-> call]

\* mutant: the host drops the timer it is asked to schedule
setTimeoutDropped(ts, id, fn, ms, args, call) == ts

\* setTimeout(fn, ms, ...args): the outstanding timers afterwards
setTimeout(ts, id, fn, ms, args, call) == ts \cup {Timer(id, fn, now + ms, 0, args, call)}
\* setInterval(fn, ms)
setInterval(ts, id, fn, ms, call) == ts \cup {Timer(id, fn, now + ms, ms, NoArgs, call)}
\* clearTimeout(id) / clearInterval(id): no effect on a fired, cancelled or undefined handle
clearTimeout(ts, id) == {t \in ts : t.id # id}
clearInterval(ts, id) == {t \in ts : t.id # id}

\* the earliest reading of Date.now() at which the host runs the callback of
\* a timer due at `due`: the host's timer clock may be one millisecond ahead
earliestRun(due) == due - 1

\* the timer whose callback the event loop runs next: the earliest due, the
\* earliest scheduled among those
IsNextDue(t) ==
  /\ t \in timers
  /\ earliestRun(t.due) <= now
  /\ \A u \in timers : u.due > t.due \/ (u.due = t.due /\ u.id >= t.id)

\* an operation as observed: `value` is what isActive() returned, whether the
\* governor was active when clocked or terminate was called, whether the
\* controller called terminate during a tick
Op(op, value) == [op |-> op, value |-> value]
\* no operation: the clock moved on, or nothing has happened
NoOp == Op("none", FALSE)

\* the clock moves on, up to `limit`; the host runs a callback no sooner than
\* it is due, and later when the thread is busy, so the clock may pass the due
\* time of an outstanding timer
Tick(limit) ==
  /\ now < limit
  /\ now' = now + 1
  /\ lastOp' = NoOp
  /\ UNCHANGED <<timers, nextId, logVars, paramVars, throttleVars, sharedVars, debounceVars, clockedVars>>

Advance == Tick(MaxTime)

\* one invocation of the original callable, as observed
Invocation(ctx, args, call, sync) ==
  [t |-> now, ctx |-> ctx, args |-> args, call |-> call, sync |-> sync]

\* the time of the most recent invocation of the original callable
LastFire == IF invocations = << >> THEN NoNumber ELSE invocations[Len(invocations)].t

\* one call of the governed callable, as observed: `sinceFire` is the time
\* since the most recent invocation of the original callable (NoNumber when
\* there was none), `open` whether the governor's timer variable was set,
\* `pending` the number of outstanding timers the call found
Call(self, args, open) ==
  [t |-> now, this |-> self, args |-> args,
   sinceFire |-> IF LastFire = NoNumber THEN NoNumber ELSE now - LastFire,
   fired |-> Len(invocations), open |-> open, pending |-> Cardinality(timers)]

\* the host and the history before the first call
InitHost ==
  /\ now = 1
  /\ timers = {}
  /\ nextId = 1
  /\ callLog = << >>
  /\ invocations = << >>
  /\ controllerLog = << >>
  /\ lastOp = NoOp

\* no throttle governor was made
NoThrottle ==
  /\ threshold = 0
  /\ isSuppressTrailingCall = FALSE
  /\ timeGap = NoNumber
  /\ timestampRecent = NoNumber
  /\ timestampCurrent = NoNumber

\* no debounce governor was made
NoDebounce ==
  /\ delay = 0
  /\ isTriggerImmediately = FALSE
  /\ timeoutResetId = NoHandle

\* no clocked governor was made
NoClocked ==
  /\ interval = 0
  /\ controller = "none"
  /\ thisArg = "undefined"
  /\ argsArr = UnassignedArgs
  /\ clockCount = NoNumber
  /\ clockStart = NoNumber
  /\ timerId = NoHandle

\* ---------------------------------------------------------------- throttle

\* the variables no throttle operation touches
throttleIdle == <<delay, isTriggerImmediately, interval, controller, controllerLog, debounceVars, clockedVars, lastOp>>

\* throttle(threshold, isSuppressTrailingCall, target) applied to a function
InitThrottle ==
  /\ InitHost
  /\ subject \in SubjectValues
  /\ proceed = sloppyThis(subject)
  /\ governed = (IF ~isFunction(proceed) THEN proceed ELSE "throttled")
  /\ \E n \in 1..MaxDuration : threshold = sanitizedDuration(n, DEFAULT_THROTTLE_THRESHOLD)
  /\ isSuppressTrailingCall \in BOOLEAN
  /\ \E t \in TargetValues : target = getSanitizedTarget(t)
  /\ timeoutId = NoHandle
  /\ timeGap = NoNumber
  /\ timestampRecent = NoNumber
  /\ timestampCurrent = NoNumber
  /\ context = "undefined"
  /\ NoDebounce
  /\ NoClocked

\* `context = target || getSanitizedTarget(this)`
resolveContext(self) == IF Truthy(target) THEN target ELSE getSanitizedTarget(self)

\* trigger(...argsArray): timestampRecent takes the value timestampCurrent has
\* when trigger runs (`current`), then the original callable is applied
trigger(current, ctx, args, call, sync) ==
  /\ timestampRecent' = current
  /\ invocations' = Append(invocations, Invocation(ctx, args, call, sync))

\* mutant: throttled forgets to cancel the timer of the call before
throttledNotCleared == timers

\* the outstanding timers after `clearTimeout(timeoutId)` at the top of throttled
throttledCleared == clearTimeout(timers, timeoutId)

\* mutant: the suppression branch compares with > instead of >=
isLeadingAgainStrict(gap) == isSuppressTrailingCall /\ gap > threshold

\* `isSuppressTrailingCall && (timeGap >= threshold)`
isLeadingAgain(gap) == isSuppressTrailingCall /\ gap >= threshold

\* mutant: the trailing call waits a whole threshold, whatever the gap
trailingDelayWhole(gap) == threshold

\* the delay of the trailing call: `mathMax((threshold - timeGap), 0)`
trailingDelay(gap) == mathMax(threshold - gap, 0)

\* throttled(...argsArray), called on `self` with one argument
throttled(self, a) ==
  LET n == Len(callLog) + 1
      ctx == resolveContext(self)
      gap == now - timestampRecent
  IN
  /\ governed = "throttled"
  /\ n <= MaxCalls
  /\ callLog' = Append(callLog, Call(self, <<a>>, TruthyNumber(timestampRecent)))
  /\ context' = ctx
  /\ timestampCurrent' = now
  /\ IF TruthyNumber(timestampRecent)
       THEN /\ timeGap' = gap
            /\ IF isLeadingAgain(gap)
                 THEN /\ trigger(now, ctx, <<a>>, n, TRUE)
                      /\ timers' = throttledCleared
                      /\ UNCHANGED <<timeoutId, nextId>>
                 ELSE /\ timeoutId' = nextId
                      /\ nextId' = nextId + 1
                      /\ timers' = setTimeout(throttledCleared, nextId, "trigger", trailingDelay(gap), <<a>>, n)
                      /\ UNCHANGED <<timestampRecent, invocations>>
       ELSE \* initial call
            /\ trigger(now, ctx, <<a>>, n, TRUE)
            /\ timers' = throttledCleared
            /\ UNCHANGED <<timeGap, timeoutId, nextId>>
  /\ UNCHANGED <<now, paramVars, throttleIdle>>

ThrottledCall == \E in \in GovernedInputs : throttled(in[1], in[2])

\* the host runs the trailing call: trigger(...argsArray) from setTimeout
ThrottleTimeout ==
  \E t \in timers :
    /\ IsNextDue(t)
    /\ t.fn = "trigger"
    /\ timers' = timers \ {t}
    /\ trigger(timestampCurrent, context, t.args, t.call, FALSE)
    /\ UNCHANGED <<now, nextId, callLog, timeGap, timestampCurrent, sharedVars, paramVars, throttleIdle>>

NextThrottle == ThrottledCall \/ ThrottleTimeout \/ Advance

SpecThrottle == InitThrottle /\ [][NextThrottle]_vars

\* ------------------------------------------------------- throttle: claims

\* a step that is a call of the governed callable
CallStep == Len(callLog') = Len(callLog) + 1

\* C1 (as claimed): any two consecutive invocations of the original callable
\* are at least `threshold` apart.
ThrottleSpacing ==
  \A i \in 1..(Len(invocations) - 1) :
    invocations[i + 1].t - invocations[i].t >= threshold

\* C2: without trailing suppression only the first call invokes the original
\* callable on its own; every later invocation is a trailing one that belongs
\* to the calls made since the invocation before it, is the only one they
\* cause, and delivers the arguments and the context of the most recent of
\* them; the trailing invocation of the burst after the first fire is
\* scheduled for `threshold` after that fire (or for at once, when the call
\* came later), happens no sooner than the host runs a timer due then (at
\* most one millisecond of Date.now() before, or later), and has happened
\* whenever that burst has left no timer behind.
ThrottleCoalescing ==
  ~isSuppressTrailingCall =>
    /\ \A i \in 1..Len(invocations) :
         LET r == invocations[i]
             c == callLog[r.call]
         IN /\ r.sync <=> (r.call = 1)
            /\ c.fired = i - 1
            /\ r.args = c.args
            /\ ~Truthy(target) => r.ctx = c.this
            /\ \A k \in (r.call + 1)..Len(callLog) : callLog[k].fired >= i
            /\ i = 2 => r.t >= earliestRun(mathMax(c.t, invocations[1].t + threshold))
    /\ \A t \in timers :
         callLog[t.call].fired = 1
           => t.due = mathMax(callLog[t.call].t, invocations[1].t + threshold)
    /\ (timers = {} /\ \E k \in 1..Len(callLog) : callLog[k].fired = 1)
         => Len(invocations) >= 2

\* C2 witness: a burst of two calls after the first fire, the second arriving
\* while the first one's trailing timer was pending, has had its one trailing
\* invocation.
ThrottleCoalescingWitness ==
  /\ ~isSuppressTrailingCall
  /\ Len(callLog) = 3
  /\ callLog[2].fired = 1 /\ callLog[3].fired = 1
  /\ callLog[3].t > callLog[2].t
  /\ callLog[3].pending = 1
  /\ callLog[2].args # callLog[3].args
  /\ Len(invocations) = 2
  /\ invocations[2].call = 3

\* C3: a throttle governor never has more than one outstanding timer, and a
\* call ends either with one synchronous invocation and no timer outstanding
\* or with no invocation and exactly one timer outstanding, its own.
ThrottleOneOutcome ==
  [][/\ Cardinality(timers') <= 1
     /\ CallStep =>
          \/ /\ Len(invocations') = Len(invocations) + 1
             /\ invocations'[Len(invocations')].sync
             /\ invocations'[Len(invocations')].call = Len(callLog')
             /\ timers' = {}
          \/ /\ invocations' = invocations
             /\ Cardinality(timers') = 1
             /\ \A t \in timers' : t.call = Len(callLog') /\ t.id = timeoutId']_vars

\* C3 witness: a call that found a timer outstanding has replaced it by its own.
ThrottleOneOutcomeWitness ==
  /\ Len(callLog) >= 2
  /\ callLog[Len(callLog)].pending = 1
  /\ Cardinality(timers) = 1
  /\ \A t \in timers : t.call = Len(callLog)

\* C4: with trailing suppression, a call that arrives `threshold` or more
\* after the last fire (measured from timestampRecent, or from the actual
\* last invocation) invokes the original callable synchronously with its own
\* arguments, sets timestampRecent to now and leaves no timer outstanding.
ThrottleSuppressionFires ==
  [][(/\ CallStep
      /\ isSuppressTrailingCall
      /\ \/ TruthyNumber(timestampRecent) /\ now - timestampRecent >= threshold
         \/ LastFire # NoNumber /\ now - LastFire >= threshold)
     => /\ Len(invocations') = Len(invocations) + 1
        /\ invocations'[Len(invocations')].sync
        /\ invocations'[Len(invocations')].t = now
        /\ invocations'[Len(invocations')].call = Len(callLog')
        /\ invocations'[Len(invocations')].args = callLog'[Len(callLog')].args
        /\ timestampRecent' = now
        /\ timers' = {}]_vars

\* C4 witness: such a call found an earlier call's trailing timer still
\* outstanding, fired synchronously and left no timer behind.
ThrottleSuppressionWitness ==
  /\ isSuppressTrailingCall
  /\ Len(callLog) >= 2
  /\ callLog[Len(callLog)].pending = 1
  /\ callLog[Len(callLog)].sinceFire >= threshold
  /\ invocations # << >>
  /\ invocations[Len(invocations)].call = Len(callLog)
  /\ invocations[Len(invocations)].sync
  /\ timers = {}

\* C5 (as claimed): with trailing suppression, a call made less than
\* `threshold` after the last fire never leads to an invocation.
ThrottleSuppressedWithinThreshold ==
  isSuppressTrailingCall =>
    \A i \in 1..Len(invocations) :
      LET c == callLog[invocations[i].call]
      IN ~(c.sinceFire # NoNumber /\ c.sinceFire < threshold)

\* ---------------------------------------------------------------- debounce

\* the variables no debounce operation touches
debounceIdle == <<threshold, isSuppressTrailingCall, interval, controller, controllerLog, throttleVars, clockedVars, lastOp>>

\* debounce(delay, isTriggerImmediately, target) applied to a function;
\* `resetTimeoutId()` has run once
InitDebounce ==
  /\ InitHost
  /\ subject \in SubjectValues
  /\ proceed = sloppyThis(subject)
  /\ governed = (IF ~isFunction(proceed) THEN proceed ELSE "debounced")
  /\ \E n \in 1..MaxDuration : delay = sanitizedDuration(n, DEFAULT_DEBOUNCE_DELAY)
  /\ isTriggerImmediately \in BOOLEAN
  /\ \E t \in TargetValues : target = getSanitizedTarget(t)
  /\ timeoutId = NoHandle
  /\ timeoutResetId = NoHandle
  /\ context = "undefined"
  /\ NoThrottle
  /\ NoClocked

\* mutant: an open window's call cancels the re-arm timer only
debouncedKeepsTimer == clearTimeout(timers, timeoutResetId)

\* mutant: an open window's call cancels the pending invocation only
debouncedKeepsReset == clearTimeout(timers, timeoutId)

\* the outstanding timers after `clearTimeout(timeoutResetId)` and
\* `clearTimeout(timeoutId)` of a call that finds the window open
debouncedCleared == clearTimeout(clearTimeout(timers, timeoutResetId), timeoutId)

\* debounced(...argsArray), called on `self` with one argument
debounced(self, a) ==
  LET n == Len(callLog) + 1
  IN
  /\ governed = "debounced"
  /\ n <= MaxCalls
  /\ callLog' = Append(callLog, Call(self, <<a>>, TruthyHandle(timeoutId)))
  /\ context' = resolveContext(self)
  /\ timeoutId' = nextId
  /\ nextId' = nextId + 1
  /\ IF TruthyHandle(timeoutId)
       THEN timers' = setTimeout(debouncedCleared, nextId, "debounceTrigger", delay, <<a>>, n)
       ELSE IF isTriggerImmediately
              THEN timers' = setTimeout(timers, nextId, "immediateTrigger", 0, <<a>>, n)
              ELSE timers' = setTimeout(timers, nextId, "debounceTrigger", delay, <<a>>, n)
  /\ UNCHANGED <<now, invocations, timeoutResetId, paramVars, debounceIdle>>

DebouncedCall == \E in \in GovernedInputs : debounced(in[1], in[2])

\* the host runs debounceTrigger(...argsArray): resetTimeoutId(), then the
\* original callable
debounceTrigger ==
  \E t \in timers :
    /\ IsNextDue(t)
    /\ t.fn = "debounceTrigger"
    /\ timers' = timers \ {t}
    /\ timeoutId' = NoHandle
    /\ invocations' = Append(invocations, Invocation(context, t.args, t.call, FALSE))
    /\ UNCHANGED <<now, nextId, callLog, context, timeoutResetId, paramVars, debounceIdle>>

\* the host runs immediateTrigger(...argsArray): the re-arm timer is
\* scheduled, then the original callable runs; timeoutId stays set
immediateTrigger ==
  \E t \in timers :
    /\ IsNextDue(t)
    /\ t.fn = "immediateTrigger"
    /\ timeoutResetId' = nextId
    /\ nextId' = nextId + 1
    /\ timers' = setTimeout(timers \ {t}, nextId, "resetTimeoutId", delay, << >>, t.call)
    /\ invocations' = Append(invocations, Invocation(context, t.args, t.call, FALSE))
    /\ UNCHANGED <<now, callLog, sharedVars, paramVars, debounceIdle>>

\* the host runs resetTimeoutId() from the re-arm timer
resetTimeoutId ==
  \E t \in timers :
    /\ IsNextDue(t)
    /\ t.fn = "resetTimeoutId"
    /\ timers' = timers \ {t}
    /\ timeoutId' = NoHandle
    /\ UNCHANGED <<now, nextId, logVars, context, timeoutResetId, paramVars, debounceIdle>>

NextDebounce == DebouncedCall \/ debounceTrigger \/ immediateTrigger \/ resetTimeoutId \/ Advance

SpecDebounce == InitDebounce /\ [][NextDebounce]_vars

\* ------------------------------------------------------- debounce: claims

\* C6: in non-leading mode every invocation of the original callable comes
\* from a timer that was scheduled for `delay` after the call it belongs to,
\* runs no sooner than the host runs a timer due then (at most one
\* millisecond of Date.now() before, or later), and delivers that call's
\* arguments and context; that call was the last one before the invocation
\* (every later call arrived after it), no call is delivered twice, a call
\* followed by another one before the host could run its timer is never
\* delivered, and every call either has been delivered, or is carried by the
\* one pending timer, or was superseded by the next call before its timer
\* ran.
DebounceQuietPeriod ==
  ~isTriggerImmediately =>
    /\ \A i \in 1..Len(invocations) :
         LET r == invocations[i]
             c == callLog[r.call]
         IN /\ ~r.sync
            /\ r.t >= earliestRun(c.t + delay)
            /\ r.args = c.args
            /\ ~Truthy(target) => r.ctx = c.this
            /\ \A k \in (r.call + 1)..Len(callLog) : callLog[k].fired >= i
            /\ \A j \in 1..Len(invocations) : invocations[j].call = r.call => j = i
            /\ r.call < Len(callLog) => callLog[r.call + 1].t >= earliestRun(c.t + delay)
    /\ \A k \in 1..Len(callLog) :
         \/ \E i \in 1..Len(invocations) : invocations[i].call = k
         \/ /\ Cardinality(timers) = 1
            /\ \E t \in timers :
                 /\ t.fn = "debounceTrigger"
                 /\ t.call = k
                 /\ t.args = callLog[k].args
                 /\ t.due = callLog[k].t + delay
         \/ /\ k < Len(callLog)
            /\ callLog[k + 1].pending = 1
            /\ callLog[k + 1].fired = callLog[k].fired

\* C6 witness: three calls, each less than `delay` after the one before and
\* with changing arguments, have led to one invocation, for the third.
DebounceQuietPeriodWitness ==
  /\ ~isTriggerImmediately
  /\ Len(callLog) = 3
  /\ callLog[2].t > callLog[1].t /\ callLog[2].t < callLog[1].t + delay
  /\ callLog[3].t > callLog[2].t /\ callLog[3].t < callLog[2].t + delay
  /\ callLog[3].args # callLog[2].args
  /\ Len(invocations) = 1
  /\ invocations[1].call = 3
  /\ invocations[1].t = callLog[3].t + delay

\* C7 (as claimed): in leading mode a call that arrives less than `delay`
\* after the most recent invocation causes no invocation.
DebounceLeadingSuppresses ==
  isTriggerImmediately =>
    \A i \in 1..Len(invocations) :
      LET c == callLog[invocations[i].call]
      IN ~(c.sinceFire # NoNumber /\ c.sinceFire < delay)

\* C8 (as claimed): in leading mode a call made while the window is closed
\* invokes the original callable synchronously, within the call, with its
\* own arguments.
DebounceLeadingSynchronous ==
  [][(CallStep /\ isTriggerImmediately /\ ~TruthyHandle(timeoutId))
     => /\ Len(invocations') = Len(invocations) + 1
        /\ invocations'[Len(invocations')].sync
        /\ invocations'[Len(invocations')].call = Len(callLog')
        /\ invocations'[Len(invocations')].args = callLog'[Len(callLog')].args]_vars

\* C9: a debounce governor has at most one outstanding timer, the invoking
\* timer and the re-arm timer counted together, and it is the one the
\* governor holds the handle of.
DebounceOneTimer ==
  /\ Cardinality(timers) <= 1
  /\ \A t \in timers :
       IF t.fn = "resetTimeoutId" THEN t.id = timeoutResetId ELSE t.id = timeoutId

\* C9 witness: in leading mode a call found the re-arm timer of the leading
\* invocation outstanding and has replaced it by a trailing-invocation timer.
DebounceOneTimerWitness ==
  /\ isTriggerImmediately
  /\ Len(callLog) >= 2
  /\ callLog[Len(callLog)].pending = 1
  /\ callLog[Len(callLog)].fired = 1
  /\ invocations[1].call = Len(callLog) - 1
  /\ Cardinality(timers) = 1
  /\ \A t \in timers : t.fn = "debounceTrigger" /\ t.call = Len(callLog)

\* ----------------------------------------------------------------- clocked

\* the variables no clocked operation touches
clockedIdle == <<threshold, isSuppressTrailingCall, delay, isTriggerImmediately, throttleVars, sharedVars, debounceVars>>

\* clocked(interval, target, controller) applied to a function
InitClocked ==
  /\ InitHost
  /\ subject \in SubjectValues
  /\ proceed = strictThis(subject)
  /\ governed = (IF isFunction(proceed) THEN "clocked" ELSE proceed)
  /\ \E n \in 1..MaxDuration : interval = sanitizedDuration(n, DEFAULT_INTERVAL)
  /\ \E t \in TargetValues : target = getSanitizedTarget(t)
  /\ controller \in ControllerValues
  /\ thisArg = "undefined"
  /\ argsArr = UnassignedArgs
  /\ clockCount = NoNumber
  /\ clockStart = NoNumber
  /\ timerId = NoHandle
  /\ timeoutId = NoHandle
  /\ context = "undefined"
  /\ NoThrottle
  /\ NoDebounce

\* mutant: isActive() reports a running cycle only once it has counted a tick
isActiveCounted == timerId # NoHandle /\ clockCount > 0

\* isActive()
isActive == timerId # NoHandle

\* mutant: the target of composition time wins over the call-site `this`
resolveThisArgFixed(self) ==
  IF target # "null" THEN target ELSE getSanitizedTarget(self)

\* `thisArg = getSanitizedTarget(this) ?? target`
resolveThisArg(self) ==
  IF getSanitizedTarget(self) # "null" THEN getSanitizedTarget(self) ELSE target

\* mutant: a call of an active governor does not terminate the running cycle
clockedStacked == timers

\* the outstanding timers after `if (isActive()) { terminate(); }`
clockedCleared == IF isActive THEN clearInterval(timers, timerId) ELSE timers

\* mutant: the timer always runs triggerProceed, controller or not
clockedTriggerDirect == "triggerProceed"

\* `trigger = isFunction(controller) ? triggerController : triggerProceed`
clockedTrigger == IF isFunction(controller) THEN "triggerController" ELSE "triggerProceed"

\* clocked(...argumentsArray), called on `self`
clocked(self, argumentsArray) ==
  LET n == Len(callLog) + 1
  IN
  /\ governed = "clocked"
  /\ n <= MaxClockedCalls
  /\ callLog' = Append(callLog, Call(self, argumentsArray, isActive))
  /\ thisArg' = resolveThisArg(self)
  /\ argsArr' = argumentsArray
  /\ clockCount' = 0
  /\ clockStart' = now
  /\ timerId' = nextId
  /\ nextId' = nextId + 1
  /\ timers' = setInterval(clockedCleared, nextId, clockedTrigger, interval, n)
  /\ lastOp' = Op("clocked", isActive)
  /\ UNCHANGED <<now, invocations, controllerLog, paramVars, clockedIdle>>

ClockedCall == \E in \in ClockedInputs : clocked(in[1], in[2])

\* mutant: the terminate of a clocked governor forgets clearInterval
terminatedTimersLeak == timers

\* the outstanding timers after `clearInterval(timerId)` of terminate
terminatedTimers == clearInterval(timers, timerId)

\* mutant: terminate leaves the counter at 0, as a restart does, instead of null
terminateZeroes ==
  /\ governed = "clocked"
  /\ timers' = terminatedTimers
  /\ timerId' = NoHandle
  /\ clockStart' = NoNumber
  /\ clockCount' = 0
  /\ lastOp' = Op("terminate", isActive)
  /\ UNCHANGED <<now, nextId, logVars, thisArg, argsArr, paramVars, clockedIdle>>

\* clocked.terminate(), called from outside
terminate ==
  /\ governed = "clocked"
  /\ timers' = terminatedTimers
  /\ timerId' = NoHandle
  /\ clockStart' = NoNumber
  /\ clockCount' = NoNumber
  /\ lastOp' = Op("terminate", isActive)
  /\ UNCHANGED <<now, nextId, logVars, thisArg, argsArr, paramVars, clockedIdle>>

\* clocked.isActive(), called from outside
isActiveCall ==
  /\ governed = "clocked"
  /\ lastOp' = Op("isActive", isActive)
  /\ UNCHANGED <<hostVars, logVars, paramVars, clockedVars, clockedIdle>>

\* the host re-arms a repeating timer when it runs its callback: the next one
\* is due one period after the reading of the host's timer clock at which this
\* one ran, which is Date.now() or, when the callback ran early, the time it
\* was due
rearmed(t) == [t EXCEPT !.due = mathMax(now, t.due) + t.period]

\* mutant: the timer is a one-shot, its first callback ends the cycle
triggerProceedOnce ==
  \E t \in timers :
    /\ IsNextDue(t)
    /\ t.fn = "triggerProceed"
    /\ invocations' = Append(invocations, Invocation(thisArg, argsArr, t.call, FALSE))
    /\ timers' = timers \ {t}
    /\ timerId' = NoHandle
    /\ clockStart' = NoNumber
    /\ clockCount' = NoNumber
    /\ lastOp' = Op("tick", FALSE)
    /\ UNCHANGED <<now, nextId, callLog, controllerLog, paramVars, thisArg, argsArr, clockedIdle>>

\* the host runs triggerProceed() from the repeating timer
triggerProceed ==
  \E t \in timers :
    /\ IsNextDue(t)
    /\ t.fn = "triggerProceed"
    /\ invocations' = Append(invocations, Invocation(thisArg, argsArr, t.call, FALSE))
    /\ timers' = (timers \ {t}) \cup {rearmed(t)}
    /\ lastOp' = Op("tick", FALSE)
    /\ UNCHANGED <<now, nextId, callLog, controllerLog, paramVars, clockedVars, clockedIdle>>

\* the data object triggerController hands to the controller (`call`: history)
Snapshot(count, call) ==
  [interval |-> interval, startTime |-> clockStart, timestamp |-> now, count |-> count,
   target |-> thisArg, args |-> argsArr, call |-> call]

\* mutant: the count is reported without being incremented
reportedCount == IF clockCount = NoNumber THEN 0 ELSE clockCount

\* `++clockCount`: null counts as 0
incrementedCount == IF clockCount = NoNumber THEN 1 ELSE clockCount + 1

\* `if (count > 5)` of the controllers of controllerTest and originalProblemTest
controllerTerminates(count) == count > CONTROLLER_LAST_COUNT

\* the host runs triggerController() from the repeating timer; the controller
\* terminates when count > 5, and before that calls proceed.apply(target, args)
\* (controllerTest) or only logs (originalProblemTest)
triggerController ==
  \E t \in timers :
    LET count == incrementedCount
        data == Snapshot(count, t.call)
    IN
    /\ IsNextDue(t)
    /\ t.fn = "triggerController"
    /\ controllerLog' = Append(controllerLog, data)
    /\ lastOp' = Op("tick", controllerTerminates(count))
    /\ IF controllerTerminates(count)
         THEN \* terminate()
              /\ timers' = terminatedTimers
              /\ timerId' = NoHandle
              /\ clockStart' = NoNumber
              /\ clockCount' = NoNumber
              /\ UNCHANGED invocations
         ELSE /\ clockCount' = count
              /\ timers' = (timers \ {t}) \cup {rearmed(t)}
              /\ invocations' =
                   IF controller = "controllerTest"
                     THEN Append(invocations, Invocation(data.target, data.args, t.call, FALSE))
                     ELSE invocations
              /\ UNCHANGED <<timerId, clockStart>>
    /\ UNCHANGED <<now, nextId, callLog, thisArg, argsArr, paramVars, clockedIdle>>

ClockAdvance == Tick(MaxClockTime)

NextClocked == ClockedCall \/ terminate \/ isActiveCall \/ triggerProceed \/ triggerController \/ ClockAdvance

SpecClocked == InitClocked /\ [][NextClocked]_vars

\* clocked(interval, target, controller) applied to a function
InitClockedController == InitClocked /\ isFunction(proceed)

\* the clock of a governor with a controller moves on until a cycle can reach
\* the tick in which the controller terminates it
ControllerAdvance ==
  Tick(IF isFunction(controller) THEN MaxControllerTime ELSE MaxClockTime)

\* the clocked governor, with or without a controller, invoked and invoked
\* again, followed until a controller terminates it
NextClockedController ==
  ClockedCall \/ terminate \/ isActiveCall \/ triggerProceed \/ triggerController \/ ControllerAdvance

SpecClockedController == InitClockedController /\ [][NextClockedController]_vars

\* -------------------------------------------------------- clocked: claims

\* C10: a call of the governed callable, also of an active governor, leaves
\* invocationCount 0, startInstant now, the arguments of the new call, a
\* context that is the new call's (or the fixed target when the call has
\* none), and exactly one repeating timer: a new one, the call's own, first
\* due one interval later; and every tick that invokes the original callable
\* or the controller belongs to the most recent call.
ClockedRestart ==
  [][/\ CallStep =>
          /\ clockCount' = 0
          /\ clockStart' = now
          /\ argsArr' = callLog'[Len(callLog')].args
          /\ thisArg' \in {getSanitizedTarget(callLog'[Len(callLog')].this), target}
          /\ getSanitizedTarget(callLog'[Len(callLog')].this) # "null"
               => thisArg' = callLog'[Len(callLog')].this
          /\ Cardinality(timers') = 1
          /\ \A t \in timers' :
               /\ t.id = timerId'
               /\ t.id \notin {u.id : u \in timers}
               /\ t.call = Len(callLog')
               /\ t.period = interval
               /\ t.due = now + interval
     /\ (~CallStep /\ invocations' # invocations)
          => invocations'[Len(invocations')].call = Len(callLog)
     /\ controllerLog' # controllerLog
          => controllerLog'[Len(controllerLog')].call = Len(callLog)]_vars

\* C10 witness: an active governor that had ticked was invoked again, with
\* other arguments, and has ticked in its new cycle.
ClockedRestartWitness ==
  /\ Len(callLog) = 2
  /\ callLog[2].open
  /\ callLog[2].pending = 1
  /\ callLog[2].fired >= 1
  /\ callLog[2].args # callLog[1].args
  /\ Len(invocations) > callLog[2].fired
  /\ invocations[Len(invocations)].call = 2
  /\ invocations[Len(invocations)].args = callLog[2].args
  /\ Cardinality(timers) = 1

\* the ticks of call `c` that invoked the original callable
procTicks(c) == {k \in 1..Len(invocations) : invocations[k].call = c}

\* the ticks of call `c` that invoked the controller
ctrlTicks(c) == {k \in 1..Len(controllerLog) : controllerLog[k].call = c}

\* the history of the controller at a turn boundary: a tick in which the
\* controller called terminate is the last entry of its cycle, with count 6,
\* after which, as long as the governed callable is not invoked again, no
\* timer is outstanding and isActive() is false; the controller of
\* controllerTest has invoked the original callable exactly 5 times in that
\* cycle, the one of originalProblemTest never
ClockedControllerTerminationState ==
  /\ \A i \in 1..Len(controllerLog) :
       LET data == controllerLog[i]
       IN  data.count > CONTROLLER_LAST_COUNT =>
             /\ data.count = CONTROLLER_LAST_COUNT + 1
             /\ \A j \in ctrlTicks(data.call) : j <= i
             /\ data.call = Len(callLog) => (timers = {} /\ ~isActive)
             /\ Cardinality(procTicks(data.call)) =
                  IF controller = "controllerTest" THEN CONTROLLER_LAST_COUNT ELSE 0
  /\ lastOp.op = "tick" =>
       /\ lastOp.value => (timers = {} /\ ~isActive)
       /\ controllerLog # << >> =>
            (lastOp.value <=> controllerLog[Len(controllerLog)].count > CONTROLLER_LAST_COUNT)
       /\ controllerLog = << >> => ~lastOp.value
  /\ lastOp.op = "isActive" /\ controllerLog # << >>
       /\ controllerLog[Len(controllerLog)].count > CONTROLLER_LAST_COUNT
       /\ controllerLog[Len(controllerLog)].call = Len(callLog)
       => ~lastOp.value

\* C11: a controller that calls the terminate it received ends the cycle in
\* that very tick: the tick in which it does is the last entry of its cycle in
\* the controller's history, and as long as the governed callable is not
\* invoked again no timer is outstanding, isActive() is false, and no tick
\* occurs: neither the controller nor the original callable is invoked while
\* the governor is inactive.  This holds for every cycle, the first one and
\* one started by invoking the governor again.  The two controllers of the
\* source terminate in the tick with count 6, and never before: in a cycle it
\* has terminated, the controller of controllerTest has invoked the original
\* callable exactly 5 times, the one of originalProblemTest never.
ClockedControllerTermination ==
  /\ []ClockedControllerTerminationState
  /\ [][timerId = NoHandle => UNCHANGED <<controllerLog, invocations>>]_vars

\* C11 witness: a governor with the controller of controllerTest that had
\* ticked was invoked again, and the controller has terminated the new cycle
\* in its 6th tick, after 5 invocations of the original callable in it.
ClockedControllerTerminationWitness ==
  /\ controller = "controllerTest"
  /\ Len(callLog) = 2
  /\ callLog[2].open
  /\ ctrlTicks(1) # {}
  /\ lastOp = Op("tick", TRUE)
  /\ Cardinality(ctrlTicks(2)) = CONTROLLER_LAST_COUNT + 1
  /\ Cardinality(procTicks(2)) = CONTROLLER_LAST_COUNT
  /\ controllerLog[Len(controllerLog)].call = 2
  /\ ~isActive
  /\ timers = {}

\* C12: terminate() called on an inactive governor (never started, terminated
\* by the caller, or terminated by the controller) changes nothing: timerId,
\* clockStart and clockCount were null and stay null, the host's timers are
\* the same (none created, none cancelled), and so are the captured context
\* and arguments, the parameters and the histories.
ClockedTerminateIdempotent ==
  [][(lastOp'.op = "terminate" /\ ~lastOp'.value) =>
       /\ ~isActive
       /\ timerId' = NoHandle /\ clockStart' = NoNumber /\ clockCount' = NoNumber
       /\ UNCHANGED <<timerId, clockStart, clockCount>>
       /\ UNCHANGED <<timers, nextId, now>>
       /\ UNCHANGED <<thisArg, argsArr, logVars, paramVars>>]_vars

\* C12 witness: terminate() was called after the controller had already
\* terminated the cycle.
ClockedTerminateIdempotentWitness ==
  /\ lastOp = Op("terminate", FALSE)
  /\ controllerLog # << >>
  /\ controllerLog[Len(controllerLog)].count > CONTROLLER_LAST_COUNT
  /\ controllerLog[Len(controllerLog)].call = Len(callLog)
  /\ timerId = NoHandle /\ clockStart = NoNumber /\ clockCount = NoNumber

\* the governor state at a turn boundary: timerId is set exactly when a
\* repeating timer is outstanding (then exactly one, the one timerId names),
\* clockCount and clockStart are set exactly then, isActive() returns exactly
\* that, and the governor is inactive before the first invocation and after
\* terminate(), active after an invocation and after a tick that did not
\* terminate
ClockedLifecycleState ==
  /\ (timerId # NoHandle) <=> (timers # {})
  /\ \A t \in timers : t.id = timerId /\ t.period = interval /\ t.call = Len(callLog)
  /\ Cardinality(timers) <= 1
  /\ (clockCount # NoNumber) <=> (timerId # NoHandle)
  /\ (clockStart # NoNumber) <=> (timerId # NoHandle)
  /\ lastOp.op = "isActive" => (lastOp.value <=> timers # {})
  /\ callLog = << >> => timerId = NoHandle
  /\ lastOp.op = "terminate" => timerId = NoHandle
  /\ lastOp.op = "clocked" => timerId # NoHandle
  /\ (lastOp.op = "tick" /\ ~lastOp.value) => timerId # NoHandle

\* C13: at every turn boundary timerId # null holds exactly when a repeating
\* timer is outstanding, isActive() returns that value, and clockCount and
\* clockStart are non-null exactly then; an inactive governor stays inactive
\* until the governed callable is invoked, and an active one stays active
\* until terminate() runs (called from outside or by the controller in a tick).
ClockedLifecycle ==
  /\ []ClockedLifecycleState
  /\ [][/\ (timerId = NoHandle /\ lastOp'.op # "clocked") => timerId' = NoHandle
        /\ (timerId # NoHandle /\ lastOp'.op # "terminate"
              /\ ~(lastOp'.op = "tick" /\ lastOp'.value)) => timerId' # NoHandle]_vars

\* C13 witness: isActive() returned false on a governor that had been invoked
\* twice, had ticked and had been terminated.
ClockedLifecycleWitness ==
  /\ lastOp = Op("isActive", FALSE)
  /\ Len(callLog) = 2
  /\ callLog[2].open
  /\ invocations # << >>
  /\ invocations[Len(invocations)].call = 2
  /\ timers = {}
  /\ clockCount = NoNumber /\ clockStart = NoNumber

\* the most recent call of the governed callable
lastCall == callLog[Len(callLog)]

\* C14 as claimed: on every invocation of the governed callable the captured
\* context is the target of composition time whenever one was supplied.
ClockedFixedTargetWins ==
  (callLog # << >> /\ target # "null") => thisArg = target

\* C14: on every invocation of the governed callable the captured context is
\* the call-site context whenever the call has one (it is neither undefined
\* nor null), also when a target was supplied at composition time; the target
\* of composition time is captured only when the call has no context.
ClockedContextPrecedence ==
  callLog # << >> =>
    /\ getSanitizedTarget(lastCall.this) # "null" => thisArg = lastCall.this
    /\ getSanitizedTarget(lastCall.this) = "null" => thisArg = target

\* C14 witness: a governor made with a target object was called on another
\* object and has captured that one; it has ticked with it.
ClockedContextPrecedenceWitness ==
  /\ target = "objT"
  /\ callLog # << >>
  /\ lastCall.this = "obj1"
  /\ thisArg = "obj1"
  /\ invocations # << >>
  /\ invocations[Len(invocations)].call = Len(callLog)
  /\ invocations[Len(invocations)].ctx = "obj1"

\* the number of ticks of the running cycle so far
cycleTicks ==
  IF isFunction(controller)
    THEN Cardinality(ctrlTicks(Len(callLog)))
    ELSE Cardinality(procTicks(Len(callLog)))

\* C15 as claimed: on each tick of an active governor, with or without a
\* controller, clockCount is incremented by one, so that after the k-th tick
\* of a cycle it is k.
ClockedEveryTickCounts ==
  timerId # NoHandle => clockCount = cycleTicks

\* C15: with a controller, each tick of an active governor increments
\* clockCount by one before it is reported: the k-th tick after the most
\* recent (re)start hands the controller count k (the first tick 1), with
\* startTime the time of the most recent invocation of the governed callable,
\* and clockCount is the number of ticks of the running cycle; without a
\* controller a tick does not touch clockCount, which stays 0 while the
\* governor is active.
ClockedTickCounting ==
  /\ \A i \in 1..Len(controllerLog) :
       LET data == controllerLog[i]
       IN  /\ data.count = Cardinality({j \in ctrlTicks(data.call) : j <= i})
           /\ data.startTime = callLog[data.call].t
           /\ data.timestamp >= data.startTime
  /\ (timerId # NoHandle /\ isFunction(controller)) => clockCount = cycleTicks
  /\ (timerId # NoHandle /\ ~isFunction(controller)) => clockCount = 0

\* C15 witness: a governor with a controller was restarted after it had
\* ticked, at a later time, and the second tick of the new cycle has reported
\* count 2 and the start time of the restart.
ClockedTickCountingWitness ==
  /\ isFunction(controller)
  /\ Len(callLog) = 2
  /\ callLog[2].t > callLog[1].t
  /\ ctrlTicks(1) # {}
  /\ controllerLog[Len(controllerLog)].call = 2
  /\ controllerLog[Len(controllerLog)].count = 2
  /\ controllerLog[Len(controllerLog)].startTime = callLog[2].t
  /\ clockCount = 2

\* a step in which the host ran the callback of the due repeating timer
TickStep == lastOp'.op = "tick" /\ \E t \in timers : IsNextDue(t) /\ t \notin timers'

\* C16: without a controller every tick invokes the original callable exactly
\* once, with the context and the arguments the most recent invocation of the
\* governed callable captured; with a controller every tick invokes the
\* controller exactly once, with that context and those arguments, and the
\* original callable runs in that tick only when the controller calls proceed
\* (the controller of controllerTest while count <= 5, the one of
\* originalProblemTest never); no other step, in particular no invocation of
\* the governed callable, invokes the original callable or the controller,
\* and the first tick is scheduled one interval after the start and comes no
\* sooner than the host runs a timer due then.
ClockedTickDispatch ==
  [][/\ ~TickStep => UNCHANGED <<invocations, controllerLog>>
     /\ CallStep => (~TickStep /\ \A t \in timers' : t.due = now + interval)
     /\ TickStep =>
          /\ now >= earliestRun(lastCall.t + interval)
          /\ ~isFunction(controller) =>
               /\ controllerLog' = controllerLog
               /\ Len(invocations') = Len(invocations) + 1
               /\ SubSeq(invocations', 1, Len(invocations)) = invocations
               /\ invocations'[Len(invocations')].ctx = thisArg
               /\ invocations'[Len(invocations')].args = lastCall.args
               /\ invocations'[Len(invocations')].ctx \in {lastCall.this, target}
               /\ invocations'[Len(invocations')].t = now
          /\ isFunction(controller) =>
               /\ Len(controllerLog') = Len(controllerLog) + 1
               /\ SubSeq(controllerLog', 1, Len(controllerLog)) = controllerLog
               /\ controllerLog'[Len(controllerLog')].target = thisArg
               /\ controllerLog'[Len(controllerLog')].args = lastCall.args
               /\ controllerLog'[Len(controllerLog')].timestamp = now
               /\ controller = "originalProblemTest" => invocations' = invocations
               /\ controller = "controllerTest" =>
                    IF controllerLog'[Len(controllerLog')].count <= CONTROLLER_LAST_COUNT
                      THEN /\ Len(invocations') = Len(invocations) + 1
                           /\ SubSeq(invocations', 1, Len(invocations)) = invocations
                           /\ invocations'[Len(invocations')].ctx = thisArg
                           /\ invocations'[Len(invocations')].args = lastCall.args
                      ELSE invocations' = invocations]_vars

\* C16 witness: a governor whose controller never calls proceed was invoked,
\* with arguments, and has ticked twice: the controller ran twice with those
\* arguments, the original callable never.
ClockedTickDispatchWitness ==
  /\ controller = "originalProblemTest"
  /\ lastOp.op = "tick"
  /\ Len(callLog) = 1
  /\ Len(controllerLog) = 2
  /\ controllerLog[2].args = callLog[1].args
  /\ controllerLog[2].timestamp = callLog[1].t + 2 * interval
  /\ invocations = << >>

\* clocked(interval, undefined, controller): no target; the lifecycle of a
\* governor does not read the context
InitClockedPlain == InitClocked /\ target = getSanitizedTarget("undefined")

\* fair timer delivery: the host does run a callback that stays due, and
\* time passes
SpecClockedFair ==
  /\ InitClockedPlain
  /\ [][NextClocked]_vars
  /\ WF_vars(triggerProceed)
  /\ WF_vars(triggerController)
  /\ WF_vars(ClockAdvance)

\* C17: an active governor goes inactive only by terminate(), called from
\* outside or by the controller during a tick; a tick in which no terminate
\* is called, isActive(), the passing of time and a re-invocation of the
\* governed callable leave it active.  And whenever it is active and its
\* timer is due within the time observed, under fair timer delivery,
\* a tick eventually comes, unless the governor is terminated or invoked
\* again first.
ClockedRunsUntilTerminated ==
  /\ [][/\ (timerId # NoHandle /\ timerId' = NoHandle)
             => (lastOp'.op = "terminate" \/ (lastOp'.op = "tick" /\ lastOp'.value))
        /\ (TickStep /\ ~lastOp'.value) => (timerId' = timerId /\ timers' # {})
        /\ lastOp'.op = "isActive" => UNCHANGED <<timerId, timers>>
        /\ lastOp'.op = "clocked" => timerId' # NoHandle]_vars
  /\ (timerId # NoHandle /\ \A t \in timers : t.due <= MaxClockTime)
       ~> (lastOp.op \in {"tick", "terminate", "clocked"})

\* C17 witness: a governor without a controller, invoked once and never
\* terminated, is active after its 3rd tick.
ClockedRunsUntilTerminatedWitness ==
  /\ ~isFunction(controller)
  /\ Len(callLog) = 1
  /\ Len(invocations) = 3
  /\ lastOp = Op("tick", FALSE)
  /\ timerId # NoHandle
  /\ Cardinality(timers) = 1

\* ------------------------------------------- throttle and debounce: context

\* C18: every invocation of the original callable, immediate or trailing, runs
\* with the target of composition time whenever one was provided (it is
\* neither undefined nor null), whatever the call-site context, and with the
\* call-site context of the call whose arguments it delivers when none was.
GovernorContextPrecedence ==
  \A i \in 1..Len(invocations) :
    LET r == invocations[i]
    IN  /\ target # "null" => r.ctx = target
        /\ target = "null" => r.ctx = getSanitizedTarget(callLog[r.call].this)

\* ------------------------------------------------ non-invocable subjects

\* C19: a wrapper applied to a value that is not invocable returns that very
\* value, and there is no governor: no timer, no call, no invocation, and the
\* closure variables of a governor are unset.
NonInvocablePassThrough ==
  ~isFunction(subject) =>
    /\ governed = subject
    /\ timers = {}
    /\ callLog = << >>
    /\ invocations = << >>
    /\ timeoutId = NoHandle
    /\ timestampRecent = NoNumber

\* --------------------------------------------- throttle: trailing bookkeeping

\* C20: once a scheduled trailing invocation has run, timestampRecent is the
\* time at which it ran, not the time of the call that scheduled it, and the
\* gap the next call computes is the time since the most recent invocation of
\* the original callable.
ThrottleTrailingBookkeeping ==
  /\ (invocations # << >> /\ ~invocations[Len(invocations)].sync)
       => timestampRecent = invocations[Len(invocations)].t
  /\ (callLog # << >> /\ lastCall.open) => timeGap = lastCall.sinceFire

\* ------------------------------------------------- throttle: eventual delivery

\* throttle(threshold, isSuppressTrailingCall) applied to a function, without
\* a target; delivery does not read the context
InitThrottlePlain ==
  /\ InitThrottle
  /\ isFunction(proceed)
  /\ target = getSanitizedTarget("undefined")

\* plain calls: throttled(a), `this` the global object
ThrottledPlainCall == \E a \in ArgValues : throttled(sloppyThis("undefined"), a)

NextThrottlePlain == ThrottledPlainCall \/ ThrottleTimeout \/ Advance

\* fair timer delivery: the host does run a callback that stays due, and
\* time passes
SpecThrottleFair ==
  /\ InitThrottlePlain
  /\ [][NextThrottlePlain]_vars
  /\ WF_vars(ThrottleTimeout)
  /\ WF_vars(Advance)

\* the arguments of the most recent call were the last to be delivered to the
\* original callable, and no timer is pending
lastCallDelivered ==
  /\ timers = {}
  /\ invocations # << >>
  /\ invocations[Len(invocations)].call = Len(callLog)
  /\ invocations[Len(invocations)].args = lastCall.args

\* the most recent call is pending: the one outstanding timer is its own and
\* carries its arguments
lastCallPending ==
  /\ Cardinality(timers) = 1
  /\ \A t \in timers :
       /\ t.fn = "trigger"
       /\ t.call = Len(callLog)
       /\ t.args = lastCall.args
       /\ t.id = timeoutId
       /\ t.due <= lastCall.t + threshold

\* C21: the last call is never lost: at every turn boundary after a call its
\* arguments either were the last delivered, with no timer pending, or are
\* carried by the one pending timer; once they are delivered and no timer is
\* pending the original callable is not invoked again before a new call; and,
\* under fair timer delivery, a pending trailing call that is due
\* within the time observed is eventually delivered unless a new call comes
\* first.
ThrottleEventualDelivery ==
  /\ [](callLog # << >> => (lastCallDelivered \/ lastCallPending))
  /\ [][(timers = {} /\ ~CallStep) => UNCHANGED <<invocations, timers>>]_vars
  /\ (callLog # << >> /\ \A t \in timers : t.due <= MaxTime) ~> lastCallDelivered

\* C21 witness: the third call of a sequence, whose predecessor was
\* superseded, was delivered by the trailing timer and nothing is pending.
ThrottleEventualDeliveryWitness ==
  /\ Len(callLog) = 3
  /\ Len(invocations) = 2
  /\ lastCallDelivered
  /\ ~invocations[2].sync
  /\ invocations[2].t > lastCall.t
  /\ callLog[2].args # lastCall.args

====
